---------------------------- MODULE Spec2Model ----------------------------
(***************************************************************************)
(* honeybee-display: the wireframe extraction and the text-label placement *)
(* of honeybee_display/colorobj.py and honeybee_display/energy/colorobj.py,*)
(* and the color_by dispatch of face.py and aperture.py.                   *)
(*                                                                         *)
(* Every function of the package is a synchronous call that builds a fresh *)
(* result from its arguments; _process_wireframe alone appends to a list   *)
(* its caller owns.  The state is the last call (op, arg), how it ended    *)
(* (outcome), the value it returned (ret) and the list a caller builds by  *)
(* calling _process_wireframe on it (wireframe).  The objects handed to a  *)
(* call are held by reference: inputs is what the caller finds in them     *)
(* once the call has returned, arg what they were when it was made.        *)
(***************************************************************************)
EXTENDS Integers, Sequences, FiniteSets, TLC

VARIABLES op, arg, outcome, ret, wireframe, inputs

vars == <<op, arg, outcome, ret, wireframe, inputs>>

(***************************************************************************)
(* Bounds of the explored inputs.                                          *)
(***************************************************************************)
MaxPts == 4        \* most vertices of a boundary ring (least: 3)
MaxHoles == 2      \* most holes of a primary geometry
MaxShades == 2     \* most shades attached to one object or room
MaxWeight == 2     \* line_width arguments 1..MaxWeight
MaxWire == 8       \* _process_wireframe is called on lists up to this long
MaxRooms == 2      \* most rooms of a collection
MaxFaces == 2      \* most faces of a room / of a flat face list
MaxSubs == 1       \* most apertures, and most doors, of a face
MaxLen == 12       \* longest attribute string
MaxExt == 2        \* largest extent of a labelled geometry along x or y
MaxObjs == 2       \* most labelled rooms / faces of a color object
MaxDecimals == 4   \* largest legend_parameters.decimal_count

(***************************************************************************)
(* Generic helpers.                                                        *)
(***************************************************************************)
RECURSIVE Flatten(_)
Flatten(ss) == IF ss = <<>> THEN <<>> ELSE Head(ss) \o Flatten(Tail(ss))

IsPrefix(s, t) == Len(s) <= Len(t) /\ SubSeq(t, 1, Len(s)) = s

Range(s) == { s[i] : i \in 1..Len(s) }

Min(a, b) == IF a < b THEN a ELSE b

\* Python's None, and a str where None may stand instead (a legend title).
None == [none |-> TRUE]
Text(chars) == [text |-> chars]

(***************************************************************************)
(* Geometry (ladybug_geometry Face3D as the package reads it).  A point is *)
(* <<owner, ring, k>>: vertex k of ring `ring` (0 the boundary, j hole j)  *)
(* of the geometry of the object `owner`; distinct triples are distinct    *)
(* points.  A line segment is the pair of its end points.                  *)
(***************************************************************************)
HolePts == 3       \* vertices of a hole ring

Face3D(owner, n, h) ==
    [boundary |-> [k \in 1..n |-> <<owner, 0, k>>],
     holes    |-> [j \in 1..h |-> [k \in 1..HolePts |-> <<owner, j, k>>]]]

RingSegments(ring) ==
    [k \in 1..Len(ring) |-> <<ring[k], ring[(k % Len(ring)) + 1]>>]

boundary_segments(face3d) == RingSegments(face3d.boundary)

has_holes(face3d) == Len(face3d.holes) > 0

DisplayLineSegment3D(seg, line_width) ==
    [geometry |-> seg, line_width |-> line_width]

(***************************************************************************)
(* The loops every wireframe function runs over one geometry               *)
(* (colorobj.py 204-209, and again 212-217, 174-179, 190-195).             *)
(***************************************************************************)
BoundaryPass(face3d, line_width) ==
    [k \in 1..Len(boundary_segments(face3d)) |->
        DisplayLineSegment3D(boundary_segments(face3d)[k], line_width)]

\* The loop body the name `hole` suggests: the hole's own ring.
HolePassOfHole(face3d, hole, line_width) ==
    [k \in 1..Len(hole) |-> DisplayLineSegment3D(RingSegments(hole)[k], line_width)]

\* `for seg in face3d.boundary_segments` inside `for hole in face3d.holes`:
\* the loop variable `hole` is never read.
HolePass(face3d, hole, line_width) ==
    [k \in 1..Len(boundary_segments(face3d)) |->
        DisplayLineSegment3D(boundary_segments(face3d)[k], line_width)]

RECURSIVE HolesLoop(_, _, _)
HolesLoop(face3d, j, line_width) ==
    IF j > Len(face3d.holes) THEN <<>>
    ELSE HolePass(face3d, face3d.holes[j], line_width)
         \o HolesLoop(face3d, j + 1, line_width)

GeometryLines(face3d, line_width) ==
    BoundaryPass(face3d, line_width)
    \o (IF has_holes(face3d) THEN HolesLoop(face3d, 1, line_width) ELSE <<>>)

(***************************************************************************)
(* Numbers and vectors.  The package computes in floating point; the model *)
(* computes the same expressions exactly.  A number is a fraction          *)
(* [num, den] in lowest terms with den > 0; a vector or point is           *)
(* [v |-> <<a, b, c>>, d |-> n], standing for (a/n, b/n, c/n), in lowest   *)
(* terms with n > 0.                                                       *)
(***************************************************************************)
Abs(a) == IF a < 0 THEN -a ELSE a

RECURSIVE GCD(_, _)
GCD(a, b) == IF b = 0 THEN a ELSE GCD(b, a % b)

Frac(num, den) ==
    LET sg == IF den < 0 THEN -1 ELSE 1
        g  == GCD(Abs(num), Abs(den))
    IN  [num |-> (sg * num) \div g, den |-> (sg * den) \div g]

Less(p, q) == p.num * q.den < q.num * p.den

Vec(a, b, c, d) ==
    LET g == GCD(GCD(GCD(Abs(a), Abs(b)), Abs(c)), d)
    IN  [v |-> <<a \div g, b \div g, c \div g>>, d |-> d \div g]

Vector3D(x, y, z) == Vec(x, y, z, 1)

Neg(u) == Vec(-u.v[1], -u.v[2], -u.v[3], u.d)

Plus(u, w) ==
    Vec(u.v[1] * w.d + w.v[1] * u.d, u.v[2] * w.d + w.v[2] * u.d,
        u.v[3] * w.d + w.v[3] * u.d, u.d * w.d)

Minus(u, w) == Plus(u, Neg(w))

Times(u, q) == Vec(q.num * u.v[1], q.num * u.v[2], q.num * u.v[3], q.den * u.d)

Dot(u, w) ==
    Frac(u.v[1] * w.v[1] + u.v[2] * w.v[2] + u.v[3] * w.v[3], u.d * w.d)

Cross(u, w) ==
    Vec(u.v[2] * w.v[3] - u.v[3] * w.v[2],
        u.v[3] * w.v[1] - u.v[1] * w.v[3],
        u.v[1] * w.v[2] - u.v[2] * w.v[1], u.d * w.d)

\* The explored vectors have whole lengths, so the square root is exact.
Sqrt(n) == CHOOSE r \in 0..n : r * r = n

Normalize(u) ==
    Vec(u.v[1], u.v[2], u.v[3],
        Sqrt(u.v[1] * u.v[1] + u.v[2] * u.v[2] + u.v[3] * u.v[3]))

\* Vector3D.rotate(axis, math.pi) by Rodrigues' formula with cos = -1, sin = 0.
RotatePi(u, axis) == Minus(Times(axis, Frac(2 * Dot(axis, u).num, Dot(axis, u).den)), u)

(***************************************************************************)
(* ladybug_geometry Plane as the package uses it: Plane(n, o), .rotate     *)
(* about the plane's own normal by math.pi, and .move.                     *)
(***************************************************************************)
PlaneOf(n, o, x) == [n |-> n, o |-> o, x |-> x, y |-> Cross(n, x)]

Plane(n, o) ==
    LET nn == Normalize(n)
    IN  PlaneOf(nn, o,
            IF nn.v[1] = 0 /\ nn.v[2] = 0 THEN Vector3D(1, 0, 0)
            ELSE Normalize(Vec(nn.v[2], -nn.v[1], 0, nn.d)))

rotate(plane, axis, origin) ==
    PlaneOf(Normalize(RotatePi(plane.n, axis)),
            Plus(origin, RotatePi(Minus(plane.o, origin), axis)),
            Normalize(RotatePi(plane.x, axis)))

move(plane, moving_vec) ==
    PlaneOf(Normalize(plane.n), Plus(plane.o, moving_vec), Normalize(plane.x))

(***************************************************************************)
(* Geometry as the label placement reads it: center, normal, min, max.     *)
(***************************************************************************)
\* A room's Polyface3D with its lower corner at the origin.
Solid(center, dx, dy) ==
    [center |-> center, min |-> Vector3D(0, 0, 0), max |-> Vector3D(dx, dy, 6)]

\* A Face3D with its lower corner at the origin.
LabelFace3D(center, normal, dx, dy) ==
    [center |-> center, normal |-> normal,
     min |-> Vector3D(0, 0, 0), max |-> Vector3D(dx, dy, 6)]

XExtent(geo) == Frac(Minus(geo.max, geo.min).v[1], Minus(geo.max, geo.min).d)
YExtent(geo) == Frac(Minus(geo.max, geo.min).v[2], Minus(geo.max, geo.min).d)

Over(q, n) == Frac(q.num, q.den * n)

Larger(p, q) == IF Less(p, q) THEN q ELSE p

(***************************************************************************)
(* Honeybee objects as the package reads them: identifier, geometry,       *)
(* shades, and for a Face its _apertures and _doors.  An identifier is     *)
(* <<room, face, sub, i, shade, subshade>> (sub: 1 aperture, 2 door).      *)
(***************************************************************************)
\* The colour an object's attribute `attr` (type_color, bc_color) holds.
Color(attr, id) == [attr |-> attr, of |-> id]

SubShade(id, t) ==
    LET tid == [id EXCEPT ![6] = t]
    IN  [identifier |-> tid, kind |-> "Shade",
         type_color |-> Color("type_color", tid), bc_color |-> Color("bc_color", tid),
         geometry |-> Face3D(tid, 3, 0), shades |-> <<>>]

\* Shade s of the object `id`: odd shades have a hole, even ones a sub-shade.
Shade(id, s) ==
    LET sid == [id EXCEPT ![5] = s]
    IN  [identifier |-> sid, kind |-> "Shade",
         type_color |-> Color("type_color", sid), bc_color |-> Color("bc_color", sid),
         geometry |-> Face3D(sid, 3, s % 2),
         shades |-> [t \in 1..((s + 1) % 2) |-> SubShade(sid, t)]]

GeoObj(id, kind, n, h, ns) ==
    [identifier |-> id, kind |-> kind,
     type_color |-> Color("type_color", id), bc_color |-> Color("bc_color", id),
     geometry |-> Face3D(id, n, h),
     shades |-> [s \in 1..ns |-> Shade(id, s)]]

\* Face.punched_geometry: the face with the boundary of every aperture and
\* door added as a hole.
Punched(geometry, apertures, doors) ==
    [geometry EXCEPT !.holes =
        @ \o [a \in 1..Len(apertures) |-> apertures[a].geometry.boundary]
          \o [d \in 1..Len(doors) |-> doors[d].geometry.boundary]]

Face(id, n, h, ns, nsub) ==
    LET apertures == [a \in 1..nsub |->
                        GeoObj([id EXCEPT ![3] = 1, ![4] = a], "Aperture", 4, 0, ns)]
        doors == [d \in 1..nsub |->
                        GeoObj([id EXCEPT ![3] = 2, ![4] = d], "Door", 3, h, ns)]
    IN  [identifier |-> id, kind |-> "Face",
         type_color |-> Color("type_color", id), bc_color |-> Color("bc_color", id),
         geometry |-> Face3D(id, n, h),
         punched_geometry |-> Punched(Face3D(id, n, h), apertures, doors),
         shades |-> [s \in 1..ns |-> Shade(id, s)],
         apertures |-> apertures, doors |-> doors]

\* Face f of a collection: odd faces have MaxPts vertices, even ones 3.
FaceOf(r, f, h, ns, nsub) ==
    Face(<<r, f, 0, 0, 0, 0>>, IF f % 2 = 1 THEN MaxPts ELSE 3, h, ns, nsub)

Room(r, nf, nsub, nfs, nrs, h) ==
    [identifier |-> <<r, 0, 0, 0, 0, 0>>,
     geometry |-> Solid(Vector3D(5, 5, 3), 10, 10),
     faces  |-> [f \in 1..nf |-> FaceOf(r, f, h, nfs, nsub)],
     shades |-> [s \in 1..nrs |-> Shade(<<r, 0, 0, 0, 0, 0>>, s)]]

\* ColorFace.flat_faces: each face followed by its apertures, doors and shades.
FlatFaces(faces) ==
    Flatten([f \in 1..Len(faces) |->
        <<faces[f]>> \o faces[f].apertures \o faces[f].doors \o faces[f].shades])

GeoObjs ==
    { GeoObj(<<1, 1, 0, 0, 0, 0>>, "Face", n, h, ns) :
        n \in 3..MaxPts, h \in 0..MaxHoles, ns \in 0..MaxShades }

RoomLists ==
    { [r \in 1..nr |-> Room(r, nf, nsub, nfs, nrs, h)] :
        nr \in 0..MaxRooms, nf \in 0..MaxFaces, nsub \in 0..MaxSubs,
        nfs \in 0..MaxShades, nrs \in 0..MaxShades, h \in 0..MaxHoles }

FaceLists ==
    { [f \in 1..nf |-> FaceOf(1, f, h, nfs, nsub)] :
        nf \in 0..MaxFaces, nsub \in 0..MaxSubs,
        nfs \in 0..MaxShades, h \in 0..MaxHoles }

(***************************************************************************)
(* colorobj.py: _process_wireframe, _room_wireframe, _face_wireframe, and  *)
(* the wireframe loop of energy/colorobj.py color_face_to_vis_set.         *)
(***************************************************************************)
DefaultLineWidth == 1
FaceLineWidth == 2

\* A plausible slip: the loop followed into the shades of shades.
RECURSIVE ShadesLoopDeep(_)
ShadesLoopDeep(shades) ==
    Flatten([s \in 1..Len(shades) |->
        GeometryLines(shades[s].geometry, 1) \o ShadesLoopDeep(shades[s].shades)])

ShadesLoop(shades) ==
    Flatten([s \in 1..Len(shades) |-> GeometryLines(shades[s].geometry, 1)])

\* A plausible slip: the shades drawn with the caller's line width.
process_wireframe_one_width(geo_obj, wf, line_width) ==
    wf \o GeometryLines(geo_obj.geometry, line_width)
       \o Flatten([s \in 1..Len(geo_obj.shades) |->
              GeometryLines(geo_obj.shades[s].geometry, line_width)])

\* A plausible slip: the shades drawn before the object itself.
process_wireframe_shades_first(geo_obj, wf, line_width) ==
    wf \o ShadesLoop(geo_obj.shades) \o GeometryLines(geo_obj.geometry, line_width)

process_wireframe(geo_obj, wf, line_width) ==
    wf \o GeometryLines(geo_obj.geometry, line_width) \o ShadesLoop(geo_obj.shades)

RECURSIVE ProcessEach(_, _)
ProcessEach(objs, wf) ==
    IF objs = <<>> THEN wf
    ELSE ProcessEach(Tail(objs), process_wireframe(Head(objs), wf, DefaultLineWidth))

RECURSIVE FacesLoop(_, _)
FacesLoop(faces, wf) ==
    IF faces = <<>> THEN wf
    ELSE FacesLoop(Tail(faces),
            ProcessEach(Head(faces).doors,
              ProcessEach(Head(faces).apertures,
                process_wireframe(Head(faces), wf, FaceLineWidth))))

RECURSIVE RoomsLoop(_, _)
RoomsLoop(rooms, wf) ==
    IF rooms = <<>> THEN wf
    ELSE RoomsLoop(Tail(rooms),
            FacesLoop(Head(rooms).faces, wf) \o ShadesLoop(Head(rooms).shades))

\* ContextGeometry(identifier, geometry); display_name defaults to the identifier.
ContextGeometry(identifier, geometry) ==
    [type |-> "ContextGeometry", identifier |-> identifier,
     display_name |-> identifier, geometry |-> geometry]

Wireframe == <<"W", "i", "r", "e", "f", "r", "a", "m", "e">>

room_wireframe(rooms) == ContextGeometry(Wireframe, RoomsLoop(rooms, <<>>))

face_wireframe(faces) ==
    ContextGeometry(Wireframe,
        Flatten([f \in 1..Len(faces) |->
            GeometryLines(faces[f].geometry,
                IF faces[f].kind = "Face" THEN FaceLineWidth ELSE 1)]))

energy_face_wireframe(faces) == ContextGeometry(Wireframe, FacesLoop(faces, <<>>))

(***************************************************************************)
(* Text.  A string is the sequence of its characters.                      *)
(***************************************************************************)
Str(c, k) == [i \in 1..k |-> c]

NA == <<"N", "/", "A">>

LowerCase == <<"a", "b", "c", "d", "e", "f", "g", "h", "i", "j", "k", "l", "m",
               "n", "o", "p", "q", "r", "s", "t", "u", "v", "w", "x", "y", "z">>
UpperCase == <<"A", "B", "C", "D", "E", "F", "G", "H", "I", "J", "K", "L", "M",
               "N", "O", "P", "Q", "R", "S", "T", "U", "V", "W", "X", "Y", "Z">>

IndexIn(c, letters) ==
    IF \E i \in 1..Len(letters) : letters[i] = c
    THEN CHOOSE i \in 1..Len(letters) : letters[i] = c ELSE 0

IsLetter(c) == IndexIn(c, LowerCase) # 0 \/ IndexIn(c, UpperCase) # 0

Upper(c) == IF IndexIn(c, LowerCase) # 0 THEN UpperCase[IndexIn(c, LowerCase)] ELSE c
Lower(c) == IF IndexIn(c, UpperCase) # 0 THEN LowerCase[IndexIn(c, UpperCase)] ELSE c

\* str.lower()
lower(text) == [i \in 1..Len(text) |-> Lower(text[i])]

\* str.replace(old, new) for single characters
replace(text, old, new) == [i \in 1..Len(text) |-> IF text[i] = old THEN new ELSE text[i]]

\* str.title(): a letter is upper-cased after a non-letter, lower-cased after a letter
title(text) ==
    [i \in 1..Len(text) |->
        IF i = 1 \/ ~IsLetter(text[i - 1]) THEN Upper(text[i]) ELSE Lower(text[i])]

(***************************************************************************)
(* colorobj.py color_room_to_vis_set / color_face_to_vis_set (and the same *)
(* lines of energy/colorobj.py): the text label of one room, of one face.  *)
(***************************************************************************)
DisplayText3D(text, plane, height, font) ==
    [text |-> text, plane |-> plane, height |-> height, font |-> font,
     horizontal_alignment |-> "Center", vertical_alignment |-> "Middle"]

MinTextLen == 10

\* txt_len = len(prop) if len(prop) > 10 else 10
TextLen(prop) == IF Len(prop) > MinTextLen THEN Len(prop) ELSE MinTextLen

\* txt_height = None if legend_parameters.is_text_height_default else text_height
\* LegendParameters.is_text_height_default: no text height was set.
is_text_height_default(legend_parameters) == legend_parameters.text_height = None

\* LegendParameters.is_title_default: no title was set.
is_title_default(legend_parameters) == legend_parameters.title = None

TextHeight(legend_parameters) ==
    IF is_text_height_default(legend_parameters) THEN None
    ELSE legend_parameters.text_height

\* A plausible slip: the height taken from the y extent.
RoomTextHeightAlongY(room_prop, geometry, txt_height) ==
    IF txt_height = None
    THEN Over(YExtent(geometry), TextLen(room_prop))
    ELSE txt_height

RoomTextHeight(room_prop, geometry, txt_height) ==
    IF txt_height = None
    THEN Over(XExtent(geometry), TextLen(room_prop))
    ELSE txt_height

RoomLabel(room_prop, room, txt_height, font) ==
    DisplayText3D(room_prop, Plane(Vector3D(0, 0, 1), room.geometry.center),
                  RoomTextHeight(room_prop, room.geometry, txt_height), font)

\* A plausible slip: the test for a plane pointing downwards left out.
UprightAsBuilt(plane) == plane

\* if base_plane.y.z < 0: base_plane = base_plane.rotate(base_plane.n, math.pi, base_plane.o)
Upright(plane) ==
    IF plane.y.v[3] < 0 THEN rotate(plane, plane.n, plane.o) ELSE plane

\* A plausible slip: the largest of all three extents.
FaceTextHeightOfBox(face_prop, f_geo, txt_height) ==
    IF txt_height = None
    THEN Over(Larger(Larger(XExtent(f_geo), YExtent(f_geo)),
                     Frac(Minus(f_geo.max, f_geo.min).v[3],
                          Minus(f_geo.max, f_geo.min).d)),
              TextLen(face_prop) * 2)
    ELSE txt_height

FaceTextHeight(face_prop, f_geo, txt_height) ==
    IF txt_height = None
    THEN Over(Larger(XExtent(f_geo), YExtent(f_geo)), TextLen(face_prop) * 2)
    ELSE txt_height

\* The rule with the second test turned round.
MoveVectorTurned(base_plane) ==
    IF base_plane.n.v[1] # 0
    THEN (IF base_plane.n.v[1] < 0 THEN base_plane.y ELSE Neg(base_plane.y))
    ELSE (IF base_plane.n.v[3] < 0 THEN Neg(base_plane.y) ELSE base_plane.y)

\* m_vec of lines 125-128
MoveVector(base_plane) ==
    IF base_plane.n.v[1] # 0
    THEN (IF base_plane.n.v[1] < 0 THEN base_plane.y ELSE Neg(base_plane.y))
    ELSE (IF base_plane.n.v[3] < 0 THEN base_plane.y ELSE Neg(base_plane.y))

FaceLabel(face_prop, f_geo, txt_height, font) ==
    LET base_plane == Upright(Plane(f_geo.normal, f_geo.center))
        txt_h == FaceTextHeight(face_prop, f_geo, txt_height)
    IN  DisplayText3D(face_prop,
                      move(base_plane, Times(MoveVector(base_plane), txt_h)),
                      txt_h, font)

\* zip(a, b): pairs up to the shorter list
Zip(a, b) == [i \in 1..Min(Len(a), Len(b)) |-> <<a[i], b[i]>>]

RoomLabels(color_room) ==
    LET pairs == Zip(color_room.attributes, color_room.rooms)
    IN  [i \in 1..Len(pairs) |->
            RoomLabel(pairs[i][1], pairs[i][2],
                      TextHeight(color_room.legend_parameters),
                      color_room.legend_parameters.font)]

\* A plausible slip: a label for 'N/A' too.
FaceLabelsOfAll(color_face) ==
    LET pairs == Zip(color_face.attributes, color_face.flat_geometry)
    IN  [i \in 1..Len(pairs) |->
            FaceLabel(pairs[i][1], pairs[i][2],
                      TextHeight(color_face.legend_parameters),
                      color_face.legend_parameters.font)]

\* for face_prop, f_geo in zip(...): if face_prop != 'N/A': ... label_text.append(label)
FaceLabels(color_face) ==
    LET pairs == Zip(color_face.attributes, color_face.flat_geometry)
    IN  Flatten([i \in 1..Len(pairs) |->
            IF pairs[i][1] # NA
            THEN <<FaceLabel(pairs[i][1], pairs[i][2],
                             TextHeight(color_face.legend_parameters),
                             color_face.legend_parameters.font)>>
            ELSE <<>>])

(***************************************************************************)
(* The VisualizationSet and its layers (ladybug_display.visualization).    *)
(***************************************************************************)
VisualizationSet(identifier, display_name, geometry) ==
    [identifier |-> identifier, display_name |-> display_name,
     geometry |-> geometry]

VisualizationData(values, legend_parameters, data_type, unit) ==
    [values |-> values, legend_parameters |-> legend_parameters,
     data_type |-> data_type, unit |-> unit]

AnalysisGeometry(identifier, geometry, data_sets) ==
    [type |-> "AnalysisGeometry", identifier |-> identifier,
     display_name |-> identifier, geometry |-> geometry, data_sets |-> data_sets]

\* con_geo.display_name = vis_set.display_name
Named(layer, display_name) == [layer EXCEPT !.display_name = display_name]

\* A plausible slip: the wireframe layer added whether asked for or not.
AddAlways(wanted, layers, layer) == Append(layers, layer)

\* vis_set.add_geometry(layer) when wanted
AddIf(wanted, layers, layer) == IF wanted THEN Append(layers, layer) ELSE layers

(***************************************************************************)
(* colorobj.py: the analysis branch (text_labels False).                   *)
(***************************************************************************)
\* attr_dict = {i: val for i, val in enumerate(attributes_unique)}
AttrDict(attributes_unique) ==
    [i \in 0..(Len(attributes_unique) - 1) |-> attributes_unique[i + 1]]

\* attr_dict_rev = {val: i for i, val in attr_dict.items()}: the last i wins
AttrDictRev(attr_dict, val) ==
    CHOOSE i \in DOMAIN attr_dict :
        attr_dict[i] = val /\ \A j \in DOMAIN attr_dict : attr_dict[j] = val => j <= i

\* A plausible slip: each object numbered by its place in the list.
OrdinalValuesByPlace(color_obj) ==
    [k \in 1..Len(color_obj.attributes) |-> k - 1]

OrdinalValues(color_obj) ==
    [k \in 1..Len(color_obj.attributes) |->
        AttrDictRev(AttrDict(color_obj.attributes_unique), color_obj.attributes[k])]

DefaultTitle(color_obj) == title(replace(color_obj.attr_name_end, "_", " "))

\* A plausible slip: the legend parameters handed on as they are, not a copy.
duplicate_shared(heap, ref) == [heap |-> heap, ref |-> ref]

\* legend_parameters.duplicate(): a new object, "l_par", with the fields of
\* the one at ref.  heap maps each reference the call holds to its object.
duplicate(heap, ref) ==
    [heap |-> [r \in DOMAIN heap \cup {"l_par"} |->
                  IF r = "l_par" THEN heap[ref] ELSE heap[r]],
     ref |-> "l_par"]

\* obj.name = value, for the object at ref
setattr(heap, ref, name, value) ==
    [heap EXCEPT ![ref] = [@ EXCEPT ![name] = value]]

\* l_par = legend_parameters.duplicate() and the three assignments to it
AnalysisHeap(color_obj) ==
    LET dup == duplicate([r \in {"legend_parameters"} |-> color_obj.legend_parameters],
                         "legend_parameters")
        l_par == dup.ref
        h1 == setattr(dup.heap, l_par, "segment_count",
                      Len(color_obj.attributes_unique))
        h2 == setattr(h1, l_par, "ordinal_dictionary",
                      AttrDict(color_obj.attributes_unique))
        h3 == IF is_title_default(h2[l_par])
              THEN setattr(h2, l_par, "title", Text(DefaultTitle(color_obj)))
              ELSE h2
    IN  [heap |-> h3, l_par |-> l_par]

\* l_par as VisualizationData receives it
OrdinalLegend(color_obj) ==
    AnalysisHeap(color_obj).heap[AnalysisHeap(color_obj).l_par]

\* The color object as its caller finds it after the conversion.
ColorObjAfter(color_obj, text_labels) ==
    IF text_labels THEN color_obj
    ELSE [color_obj EXCEPT
            !.legend_parameters = AnalysisHeap(color_obj).heap["legend_parameters"]]

RoomPrefix == <<"R", "o", "o", "m">>
FacePrefix == <<"F", "a", "c", "e">>

(***************************************************************************)
(* colorobj.py color_room_to_vis_set and color_face_to_vis_set.            *)
(***************************************************************************)
color_room_to_vis_set(color_room, include_wireframe, text_labels) ==
    LET identifier == RoomPrefix \o <<"_">> \o color_room.attr_name
        display_name == RoomPrefix \o <<" ">> \o DefaultTitle(color_room)
        layer == IF text_labels
                 THEN ContextGeometry(identifier, RoomLabels(color_room))
                 ELSE AnalysisGeometry(identifier,
                        [r \in 1..Len(color_room.rooms) |-> color_room.rooms[r].geometry],
                        <<VisualizationData(OrdinalValues(color_room),
                                            OrdinalLegend(color_room), None, None)>>)
    IN  VisualizationSet(identifier, display_name,
            AddIf(include_wireframe, <<Named(layer, display_name)>>,
                  room_wireframe(color_room.rooms)))

color_face_to_vis_set(color_face, include_wireframe, text_labels) ==
    LET identifier == FacePrefix \o <<"_">> \o color_face.attr_name
        display_name == FacePrefix \o <<" ">> \o DefaultTitle(color_face)
        layer == IF text_labels
                 THEN ContextGeometry(identifier, FaceLabels(color_face))
                 ELSE AnalysisGeometry(identifier, color_face.flat_geometry,
                        <<VisualizationData(OrdinalValues(color_face),
                                            OrdinalLegend(color_face), None, None)>>)
    IN  VisualizationSet(identifier, display_name,
            AddIf(include_wireframe, <<Named(layer, display_name)>>,
                  face_wireframe(color_face.flat_faces)))

(***************************************************************************)
(* energy/colorobj.py: '%.{}f'.format(decimal_count) % value, and the two  *)
(* conversions.  The explored values are whole numbers.                    *)
(***************************************************************************)
DigitChars == <<"0", "1", "2", "3", "4", "5", "6", "7", "8", "9">>

RECURSIVE Digits(_)
Digits(n) ==
    IF n < 10 THEN <<DigitChars[n + 1]>>
    ELSE Append(Digits(n \div 10), DigitChars[(n % 10) + 1])

FormatFixed(decimal_count, val) ==
    (IF val < 0 THEN <<"-">> ELSE <<>>) \o Digits(Abs(val))
    \o (IF decimal_count > 0 THEN <<".">> \o Str("0", decimal_count) ELSE <<>>)

EnergyRoomLabels(color_room) ==
    LET pairs == Zip(color_room.matched_values, color_room.matched_rooms)
    IN  [i \in 1..Len(pairs) |->
            RoomLabel(FormatFixed(color_room.legend_parameters.decimal_count, pairs[i][1]),
                      pairs[i][2], TextHeight(color_room.legend_parameters),
                      color_room.legend_parameters.font)]

EnergyFaceLabels(color_face) ==
    LET pairs == Zip(color_face.matched_values, color_face.matched_flat_geometry)
    IN  [i \in 1..Len(pairs) |->
            FaceLabel(FormatFixed(color_face.legend_parameters.decimal_count, pairs[i][1]),
                      pairs[i][2], TextHeight(color_face.legend_parameters),
                      color_face.legend_parameters.font)]

energy_color_room_to_vis_set(color_room, include_wireframe, text_labels) ==
    LET identifier == replace(color_room.data_type_text, " ", "_")
        display_name == color_room.data_type_text
        layer == IF text_labels
                 THEN ContextGeometry(identifier, EnergyRoomLabels(color_room))
                 ELSE AnalysisGeometry(identifier,
                        [r \in 1..Len(color_room.matched_rooms) |->
                            color_room.matched_rooms[r].geometry],
                        <<VisualizationData(color_room.matched_values,
                                            color_room.legend_parameters,
                                            color_room.data_type, color_room.unit)>>)
    IN  VisualizationSet(identifier, display_name,
            AddIf(include_wireframe, <<Named(layer, display_name)>>,
                  room_wireframe(color_room.rooms)))

energy_color_face_to_vis_set(color_face, include_wireframe, text_labels) ==
    LET identifier == replace(color_face.data_type_text, " ", "_")
        display_name == color_face.data_type_text
        layer == IF text_labels
                 THEN ContextGeometry(identifier, EnergyFaceLabels(color_face))
                 ELSE AnalysisGeometry(identifier, color_face.matched_flat_geometry,
                        <<VisualizationData(color_face.matched_values,
                                            color_face.legend_parameters,
                                            color_face.data_type, color_face.unit)>>)
    IN  VisualizationSet(identifier, display_name,
            AddIf(include_wireframe, <<Named(layer, display_name)>>,
                  energy_face_wireframe(color_face.faces)))

(***************************************************************************)
(* The explored color objects.  The objects of one color object share one  *)
(* geometry, and their attributes run through AttrSeq (their values        *)
(* through ValueSeq) from a chosen start.                                  *)
(***************************************************************************)
Cyc(seq, i) == seq[((i - 1) % Len(seq)) + 1]

Office == <<"O", "f", "f", "i", "c", "e">>

AttrSeq ==
    [k \in 1..(MaxLen - MinTextLen + 1) |-> Str("x", MinTextLen + k - 1)]
    \o <<NA, Str("x", 1), Office>>

ValueSeq == <<1234567, -7, 0>>

NormalSeq ==
    << <<0, 0, 1>>, <<0, 0, -2>>, <<1, 0, 0>>, <<-1, 0, 0>>, <<0, 1, 0>>,
       <<0, -1, 0>>, <<3, 4, 0>>, <<-3, 0, 4>>, <<3, 0, -4>>, <<0, 3, 4>>,
       <<0, -3, -4>> >>

\* <<dx, dy>>: no extent at all, then every split of MaxExt
ExtSeq == << <<0, 0>> >> \o [e \in 1..(MaxExt + 1) |-> <<e - 1, MaxExt - e + 1>>]

Legend == <<"L", "e", "g", "e", "n", "d">>

LegendParameters(text_height, ttl, decimal_count) ==
    [text_height |-> text_height, font |-> "Arial", decimal_count |-> decimal_count,
     segment_count |-> 11, ordinal_dictionary |-> None, title |-> ttl]

\* <<text_height, title>> of the explored legend parameters
LegendChoices ==
    { <<None, None>>, <<Frac(-1, 1), Text(Legend)>>, <<Frac(0, 1), None>>,
      <<Frac(2, 1), Text(Legend)>> }

RECURSIVE Unique(_)
Unique(seq) ==
    IF seq = <<>> THEN <<>>
    ELSE LET front == Unique(SubSeq(seq, 1, Len(seq) - 1))
         IN  IF seq[Len(seq)] \in Range(front) THEN front
             ELSE Append(front, seq[Len(seq)])

LabelFace(n, e) ==
    LabelFace3D(Vec(ExtSeq[e][1], ExtSeq[e][2], 6, 2),
                Vector3D(NormalSeq[n][1], NormalSeq[n][2], NormalSeq[n][3]),
                ExtSeq[e][1], ExtSeq[e][2])

SceneFaces(k) == [f \in 1..k |-> FaceOf(1, f, f % 2, 0, (f + 1) % 2)]

SceneRooms(k, dx) ==
    [r \in 1..k |->
        [Room(r, 1, 0, 0, r % 2, 0) EXCEPT !.geometry = Solid(Vec(dx, 10, 6, 2), dx, 10)]]

AttrName == <<"u", "s", "e", "r", "_", "d", "a", "t", "a", ".", "b", "_", "c">>
AttrNameEnd == <<"b", "_", "c">>
DataTypeText == <<"A", "i", "r", " ", "T">>

ColorFace(a, n, e, k, lp) ==
    LET attributes == [i \in 1..k |-> Cyc(AttrSeq, a + i - 1)]
    IN  [attr_name |-> AttrName, attr_name_end |-> AttrNameEnd,
         attributes |-> attributes, attributes_unique |-> Unique(attributes),
         flat_geometry |-> [i \in 1..k |-> LabelFace(n, e)],
         flat_faces |-> FlatFaces(SceneFaces(k)),
         legend_parameters |-> LegendParameters(lp[1], lp[2], 0)]

ColorRoom(a, dx, k, lp) ==
    LET attributes == [i \in 1..k |-> Cyc(AttrSeq, a + i - 1)]
    IN  [attr_name |-> AttrName, attr_name_end |-> AttrNameEnd,
         attributes |-> attributes, attributes_unique |-> Unique(attributes),
         rooms |-> SceneRooms(k, dx),
         legend_parameters |-> LegendParameters(lp[1], lp[2], 0)]

\* The rooms of an energy ColorRoom: the matched ones and one without a value.
EnergyColorRoom(v, dc, dx, k, lp) ==
    [data_type_text |-> DataTypeText, data_type |-> "Temperature", unit |-> "C",
     matched_values |-> [i \in 1..k |-> Cyc(ValueSeq, v + i - 1)],
     matched_rooms |-> SceneRooms(k, dx),
     rooms |-> SceneRooms(k + 1, dx),
     legend_parameters |-> LegendParameters(lp[1], lp[2], dc)]

EnergyColorFace(v, dc, n, k, lp) ==
    [data_type_text |-> DataTypeText, data_type |-> "Temperature", unit |-> "C",
     matched_values |-> [i \in 1..k |-> Cyc(ValueSeq, v + i - 1)],
     matched_flat_geometry |-> [i \in 1..k |-> LabelFace(n, ((n - 1) % Len(ExtSeq)) + 1)],
     faces |-> SceneFaces(k),
     legend_parameters |-> LegendParameters(lp[1], lp[2], dc)]

\* The color object with its attribute values repeating after the second.
WithRepeat(color_obj) ==
    LET attributes == [i \in 1..Len(color_obj.attributes) |->
                          color_obj.attributes[((i - 1) % 2) + 1]]
    IN  [color_obj EXCEPT !.attributes = attributes,
                          !.attributes_unique = Unique(attributes)]

ColorFacesRepeating ==
    { WithRepeat(ColorFace(a, 1, 2, MaxObjs + 1, <<None, None>>)) :
        a \in 1..Len(AttrSeq) }

ColorRoomsRepeating ==
    { WithRepeat(ColorRoom(a, MaxExt, MaxObjs + 1, <<None, None>>)) :
        a \in 1..Len(AttrSeq) }

ColorFaces ==
    { ColorFace(a, n, e, k, lp) :
        a \in 1..Len(AttrSeq), n \in 1..Len(NormalSeq), e \in 1..Len(ExtSeq),
        k \in 0..MaxObjs, lp \in LegendChoices }
    \cup ColorFacesRepeating

\* The x extents of the labelled rooms (their y extent is 10).
RoomExts == 0..MaxExt \cup {10}

ColorRooms ==
    { ColorRoom(a, dx, k, lp) :
        a \in 1..Len(AttrSeq), dx \in RoomExts, k \in 0..MaxObjs,
        lp \in LegendChoices }
    \cup ColorRoomsRepeating

EnergyColorRooms ==
    { EnergyColorRoom(v, dc, dx, k, lp) :
        v \in 1..Len(ValueSeq), dc \in 0..MaxDecimals, dx \in 0..MaxExt,
        k \in 0..MaxObjs, lp \in LegendChoices }

EnergyColorFaces ==
    { EnergyColorFace(v, dc, n, k, lp) :
        v \in 1..Len(ValueSeq), dc \in 0..MaxDecimals, n \in 1..Len(NormalSeq),
        k \in 0..MaxObjs, lp \in LegendChoices }

(***************************************************************************)
(* face.py face_to_vis_set and aperture.py aperture_to_vis_set.            *)
(***************************************************************************)
DisplayFace3D(geometry, color, display_mode) ==
    [geometry |-> geometry, color |-> color, display_mode |-> display_mode]

TypeText == <<"t", "y", "p", "e">>
BoundaryConditionText ==
    <<"b", "o", "u", "n", "d", "a", "r", "y", "_",
      "c", "o", "n", "d", "i", "t", "i", "o", "n">>

\* The color_by arguments explored.
ColorBys ==
    { TypeText, <<"T", "y", "p", "e">>, <<"T", "Y", "P", "E">>,
      BoundaryConditionText, replace(BoundaryConditionText, "b", "B"),
      <<"b", "c">>, <<"c", "o", "l", "o", "r">>, <<>> }

\* color_by_attr = 'type_color' if color_by.lower() == 'type' else 'bc_color'
ColorByAttr(color_by) ==
    IF lower(color_by) = TypeText THEN "type_color" ELSE "bc_color"

\* getattr(obj, color_by_attr)
getattr(obj, name) == obj[name]

add_display_shade(shaded_obj, color_by_attr, d_mod) ==
    [s \in 1..Len(shaded_obj.shades) |->
        DisplayFace3D(shaded_obj.shades[s].geometry,
                      getattr(shaded_obj.shades[s], color_by_attr), d_mod)]

SubFaceDisplay(subs, color_by_attr, d_mod) ==
    Flatten([a \in 1..Len(subs) |->
        <<DisplayFace3D(subs[a].geometry, getattr(subs[a], color_by_attr), d_mod)>>
        \o add_display_shade(subs[a], color_by_attr, d_mod)])

face_display_geometry(face, color_by_attr, d_mod) ==
    <<DisplayFace3D(face.punched_geometry, getattr(face, color_by_attr), d_mod)>>
    \o add_display_shade(face, color_by_attr, d_mod)
    \o SubFaceDisplay(face.apertures, color_by_attr, d_mod)
    \o SubFaceDisplay(face.doors, color_by_attr, d_mod)

face_to_vis_set(face, color_by) ==
    VisualizationSet(face.identifier, face.identifier,
        <<ContextGeometry(face.identifier,
            face_display_geometry(face, ColorByAttr(color_by), "SurfaceWithEdges"))>>)

aperture_to_vis_set(aperture, color_by) ==
    VisualizationSet(aperture.identifier, aperture.identifier,
        <<ContextGeometry(aperture.identifier,
            <<DisplayFace3D(aperture.geometry,
                            getattr(aperture, ColorByAttr(color_by)),
                            "SurfaceWithEdges")>>
            \o add_display_shade(aperture, ColorByAttr(color_by), "SurfaceWithEdges"))>>)

DisplayedFaces ==
    { FaceOf(1, 1, h, ns, nsub) :
        h \in 0..MaxHoles, ns \in 0..MaxShades, nsub \in 0..MaxSubs }

DisplayedApertures ==
    { GeoObj(<<1, 1, 1, 1, 0, 0>>, "Aperture", n, 0, ns) :
        n \in 3..MaxPts, ns \in 0..MaxShades }

(***************************************************************************)
(* The calls.  A conversion builds everything it returns afresh, so the    *)
(* state it leaves does not depend on the state it starts in: conversions  *)
(* are taken from the idle state (op = "none") only, which reaches the     *)
(* same states as taking them from everywhere.  _process_wireframe reads   *)
(* the list it is handed: a caller calls it again and again on the list it *)
(* is building (as energy/colorobj.py 137-143 does), here while the list   *)
(* is at most MaxWire long.                                                *)
(***************************************************************************)

Init ==
    /\ op = "none"
    /\ arg = None
    /\ outcome = "returned"
    /\ ret = None
    /\ wireframe = <<>>
    /\ inputs = None

ProcessWireframe ==
    /\ op \in {"none", "_process_wireframe"}
    /\ Len(wireframe) <= MaxWire
    /\ \E geo_obj \in GeoObjs, line_width \in 1..MaxWeight :
        /\ op' = "_process_wireframe"
        /\ arg' = [geo_obj |-> geo_obj, wireframe |-> wireframe,
                   line_width |-> line_width]
        /\ wireframe' = process_wireframe(geo_obj, wireframe, line_width)
        /\ ret' = None
        /\ inputs' = [geo_obj |-> geo_obj]
        /\ outcome' = "returned"

RoomWireframe ==
    /\ op = "none"
    /\ \E rooms \in RoomLists :
        /\ op' = "_room_wireframe"
        /\ arg' = [rooms |-> rooms]
        /\ ret' = room_wireframe(rooms)
        /\ inputs' = [rooms |-> rooms]
        /\ UNCHANGED wireframe
        /\ outcome' = "returned"

FaceWireframe ==
    /\ op = "none"
    /\ \E faces \in FaceLists :
        /\ op' = "_face_wireframe"
        /\ arg' = [faces |-> FlatFaces(faces)]
        /\ ret' = face_wireframe(FlatFaces(faces))
        /\ inputs' = [faces |-> FlatFaces(faces)]
        /\ UNCHANGED wireframe
        /\ outcome' = "returned"

ColorRoomToVisSet ==
    /\ op = "none"
    /\ \E color_room \in ColorRooms, include_wireframe \in BOOLEAN, text_labels \in BOOLEAN :
        /\ op' = "color_room_to_vis_set"
        /\ arg' = [color_obj |-> color_room, include_wireframe |-> include_wireframe,
                   text_labels |-> text_labels]
        /\ ret' = color_room_to_vis_set(color_room, include_wireframe, text_labels)
        /\ inputs' = [color_obj |-> ColorObjAfter(color_room, text_labels)]
        /\ UNCHANGED wireframe
        /\ outcome' = "returned"

ColorFaceToVisSet ==
    /\ op = "none"
    /\ \E color_face \in ColorFaces, include_wireframe \in BOOLEAN, text_labels \in BOOLEAN :
        /\ op' = "color_face_to_vis_set"
        /\ arg' = [color_obj |-> color_face, include_wireframe |-> include_wireframe,
                   text_labels |-> text_labels]
        /\ ret' = color_face_to_vis_set(color_face, include_wireframe, text_labels)
        /\ inputs' = [color_obj |-> ColorObjAfter(color_face, text_labels)]
        /\ UNCHANGED wireframe
        /\ outcome' = "returned"

EnergyColorRoomToVisSet ==
    /\ op = "none"
    /\ \E color_room \in EnergyColorRooms, include_wireframe \in BOOLEAN,
          text_labels \in BOOLEAN :
        /\ op' = "energy_color_room_to_vis_set"
        /\ arg' = [color_obj |-> color_room, include_wireframe |-> include_wireframe,
                   text_labels |-> text_labels]
        /\ ret' = energy_color_room_to_vis_set(color_room, include_wireframe, text_labels)
        /\ inputs' = [color_obj |-> color_room]
        /\ UNCHANGED wireframe
        /\ outcome' = "returned"

EnergyColorFaceToVisSet ==
    /\ op = "none"
    /\ \E color_face \in EnergyColorFaces, include_wireframe \in BOOLEAN,
          text_labels \in BOOLEAN :
        /\ op' = "energy.color_face_to_vis_set"
        /\ arg' = [color_obj |-> color_face, include_wireframe |-> include_wireframe,
                   text_labels |-> text_labels]
        /\ ret' = energy_color_face_to_vis_set(color_face, include_wireframe, text_labels)
        /\ inputs' = [color_obj |-> color_face]
        /\ UNCHANGED wireframe
        /\ outcome' = "returned"

FaceToVisSet ==
    /\ op = "none"
    /\ \E face \in DisplayedFaces, color_by \in ColorBys :
        /\ op' = "face_to_vis_set"
        /\ arg' = [face |-> face, color_by |-> color_by]
        /\ ret' = face_to_vis_set(face, color_by)
        /\ inputs' = [face |-> face]
        /\ UNCHANGED wireframe
        /\ outcome' = "returned"

ApertureToVisSet ==
    /\ op = "none"
    /\ \E aperture \in DisplayedApertures, color_by \in ColorBys :
        /\ op' = "aperture_to_vis_set"
        /\ arg' = [aperture |-> aperture, color_by |-> color_by]
        /\ ret' = aperture_to_vis_set(aperture, color_by)
        /\ inputs' = [aperture |-> aperture]
        /\ UNCHANGED wireframe
        /\ outcome' = "returned"

Next ==
    \/ ProcessWireframe
    \/ RoomWireframe
    \/ FaceWireframe
    \/ ColorRoomToVisSet
    \/ ColorFaceToVisSet
    \/ EnergyColorRoomToVisSet
    \/ EnergyColorFaceToVisSet
    \/ FaceToVisSet
    \/ ApertureToVisSet

Spec == Init /\ [][Next]_vars

(***************************************************************************)
(* Reading a wireframe back: the object and the ring a segment was taken   *)
(* from, and the segments the last _process_wireframe call appended.       *)
(***************************************************************************)
Owner(line) == line.geometry[1][1]

OnBoundary(line) == line.geometry[1][2] = 0 /\ line.geometry[2][2] = 0

OwnedBy(lines, id) == SelectSeq(lines, LAMBDA l : Owner(l) = id)

Appended == SubSeq(wireframe, Len(arg.wireframe) + 1, Len(wireframe))

IsShadeId(id) == id[5] # 0
IsFaceId(id) == id[2] # 0 /\ id[3] = 0 /\ id[5] = 0

\* lines is N first-pass segments of the boundary of obj, in boundary order
\* and closed, followed by H copies of those N, and nothing else.
BoundaryThenCopies(lines, obj) ==
    LET b == obj.geometry.boundary
        N == Len(b)
        H == Len(obj.geometry.holes)
    IN  /\ Len(lines) = N + N * H
        /\ \A i \in 1..Len(lines) :
              /\ OnBoundary(lines[i])
              /\ i <= N => lines[i].geometry = <<b[i], b[(i % N) + 1]>>
              /\ i > N => lines[i] = lines[i - N]

C2_WeightTagging ==
    /\ op = "_process_wireframe"
          => \A i \in 1..Len(Appended) :
                Appended[i].line_width =
                    IF Owner(Appended[i]) = arg.geo_obj.identifier
                    THEN arg.line_width ELSE 1
    /\ op = "_room_wireframe"
          => \A i \in 1..Len(ret.geometry) :
                ret.geometry[i].line_width =
                    IF IsFaceId(Owner(ret.geometry[i])) THEN 2 ELSE 1
    /\ op = "_face_wireframe"
          => \A f \in 1..Len(arg.faces) :
                \A l \in Range(OwnedBy(ret.geometry, arg.faces[f].identifier)) :
                    l.line_width = IF arg.faces[f].kind = "Face" THEN 2 ELSE 1

C2_Witness ==
    /\ op = "_process_wireframe"
    /\ arg.line_width = 2
    /\ Len(arg.geo_obj.geometry.holes) > 0
    /\ \E i, j \in 1..Len(Appended) :
          /\ Owner(Appended[i]) = arg.geo_obj.identifier
          /\ Appended[i].line_width = 2
          /\ IsShadeId(Owner(Appended[j]))
          /\ Appended[j].line_width = 1

(***************************************************************************)
(* The order the claims give: an object's block, then the blocks of its    *)
(* shades in list order; a face, then its apertures, then its doors; a     *)
(* room's faces, then its shades.                                          *)
(***************************************************************************)
ObjBlocks(obj) == <<obj>> \o obj.shades

FaceBlocks(face) ==
    ObjBlocks(face)
    \o Flatten([a \in 1..Len(face.apertures) |-> ObjBlocks(face.apertures[a])])
    \o Flatten([d \in 1..Len(face.doors) |-> ObjBlocks(face.doors[d])])

RoomBlocks(room) ==
    Flatten([f \in 1..Len(room.faces) |-> FaceBlocks(room.faces[f])]) \o room.shades

RECURSIVE InBlocks(_, _)
InBlocks(lines, blocks) ==
    IF blocks = <<>> THEN lines = <<>>
    ELSE LET b == Head(blocks).geometry.boundary
             size == Len(b) * (1 + Len(Head(blocks).geometry.holes))
         IN  /\ Len(lines) >= size
             /\ \A i \in 1..size :
                   lines[i].geometry[1] = b[((i - 1) % Len(b)) + 1]
             /\ InBlocks(SubSeq(lines, size + 1, Len(lines)), Tail(blocks))

\* C3 (output ordering): _process_wireframe leaves the segments already in
\* the list where they were and appends the object's boundary segments in
\* boundary order, then the per-hole copies, then block by block the same for
\* each shade in shade-list order; _room_wireframe and _face_wireframe lay
\* the blocks out in traversal order (face, its apertures, its doors, and
\* after a room's faces the room's shades).
C3_OutputOrdering ==
    /\ op = "_process_wireframe"
          => /\ IsPrefix(arg.wireframe, wireframe)
             /\ InBlocks(Appended, ObjBlocks(arg.geo_obj))
    /\ op = "_room_wireframe"
          => InBlocks(ret.geometry,
                 Flatten([r \in 1..Len(arg.rooms) |-> RoomBlocks(arg.rooms[r])]))
    /\ op = "_face_wireframe"
          => InBlocks(ret.geometry, arg.faces)

C3_Witness ==
    /\ op = "_room_wireframe"
    /\ Len(arg.rooms) = 2
    /\ Len(arg.rooms[1].faces) = 2
    /\ arg.rooms[1].faces[1].apertures # <<>>
    /\ arg.rooms[1].faces[1].doors # <<>>
    /\ Len(arg.rooms[1].faces[1].shades) = 2
    /\ Len(arg.rooms[1].shades) = 2
    /\ Len(arg.rooms[1].faces[1].geometry.holes) = 2

(***************************************************************************)
(* The text labels of a conversion, read back next to its input.           *)
(***************************************************************************)
FaceLabelOps == {"color_face_to_vis_set", "energy.color_face_to_vis_set"}
RoomLabelOps == {"color_room_to_vis_set", "energy_color_room_to_vis_set"}

LabelsAsked == op \in FaceLabelOps \cup RoomLabelOps /\ arg.text_labels

\* label_text, as it sits in the first layer of the returned set
LabelText == ret.geometry[1].geometry

\* The geometry of each primary object, in input order.
Subjects ==
    CASE op = "color_face_to_vis_set" -> arg.color_obj.flat_geometry
      [] op = "energy.color_face_to_vis_set" -> arg.color_obj.matched_flat_geometry
      [] op = "color_room_to_vis_set" ->
            [r \in 1..Len(arg.color_obj.rooms) |-> arg.color_obj.rooms[r].geometry]
      [] op = "energy_color_room_to_vis_set" ->
            [r \in 1..Len(arg.color_obj.matched_rooms) |->
                arg.color_obj.matched_rooms[r].geometry]

\* The formatted value of each primary object, in input order.
Props ==
    IF op \in {"color_face_to_vis_set", "color_room_to_vis_set"}
    THEN arg.color_obj.attributes
    ELSE [i \in 1..Len(arg.color_obj.matched_values) |->
            FormatFixed(arg.color_obj.legend_parameters.decimal_count,
                        arg.color_obj.matched_values[i])]

\* Every primary object of the call has the geometry of the first.
GeometryFixed == \A i \in 1..Len(Subjects) : Subjects[i] = Subjects[1]

AutoHeight == arg.color_obj.legend_parameters.text_height = None

\* The extent the automatic height is taken from is zero.
ZeroExtent(geo) ==
    IF op \in RoomLabelOps THEN XExtent(geo).num = 0
    ELSE XExtent(geo).num = 0 /\ YExtent(geo).num = 0

\* C4 (upright text): in every label that color_face_to_vis_set (base and
\* energy) returns with text_labels=True, the Y axis of the stored plane has
\* a z component >= 0: the half turn about the normal has righted a plane
\* that pointed down, and moving the origin afterwards has not changed it
\* (the plane still has the face's normal).
C4_UprightText ==
    (op \in FaceLabelOps /\ arg.text_labels /\ GeometryFixed)
        => \A i \in 1..Len(LabelText) :
              /\ LabelText[i].plane.y.v[3] >= 0
              /\ LabelText[i].plane.n = Normalize(Subjects[1].normal)

C4_Witness ==
    /\ op \in FaceLabelOps
    /\ arg.text_labels
    /\ Len(LabelText) >= 1
    /\ Plane(Subjects[1].normal, Subjects[1].center).y.v[3] < 0
    /\ LabelText[1].plane.y.v[3] > 0
    /\ LabelText[1].height.num > 0
    /\ LabelText[1].plane.o # Subjects[1].center

\* C5 (auto-height monotonicity), as claimed: with no explicit text height
\* and one geometry for all objects, of two labels whose texts have lengths
\* 10 < L1 < L2 the one of length L2 is strictly lower than the one of
\* length L1, whatever the geometry (zero extent included).
C5_AutoHeightMonotone ==
    (LabelsAsked /\ AutoHeight /\ GeometryFixed)
        => \A i, j \in 1..Len(LabelText) :
              (MinTextLen < Len(LabelText[i].text)
                 /\ Len(LabelText[i].text) < Len(LabelText[j].text))
                 => Less(LabelText[j].height, LabelText[i].height)

\* The direction of the move as the claim states it, and as amended.
ClaimedDirection(plane) ==
    IF plane.n.v[1] # 0
    THEN (IF plane.n.v[1] > 0 THEN Neg(plane.y) ELSE plane.y)
    ELSE (IF plane.n.v[3] < 0 THEN Neg(plane.y) ELSE plane.y)

AmendedDirection(plane) ==
    IF plane.n.v[1] # 0
    THEN (IF plane.n.v[1] > 0 THEN Neg(plane.y) ELSE plane.y)
    ELSE (IF plane.n.v[3] < 0 THEN plane.y ELSE Neg(plane.y))

\* The label's origin is the centre moved by one text height along dir.
NudgedAlong(label, center, dir) ==
    /\ Dot(label.plane.y, label.plane.y) = Frac(1, 1)
    /\ Minus(label.plane.o, center) = Times(dir, label.height)

\* C6 (label nudge direction), as claimed: the origin of every face label is
\* the face centre moved by exactly one text height along the plane's Y
\* axis: if normal.x != 0, along -Y when normal.x > 0 and +Y when
\* normal.x < 0; if normal.x = 0, along -Y when normal.z < 0 and +Y otherwise.
C6_NudgeAsClaimed ==
    (op \in FaceLabelOps /\ arg.text_labels /\ GeometryFixed)
        => \A i \in 1..Len(LabelText) :
              NudgedAlong(LabelText[i], Subjects[1].center,
                          ClaimedDirection(LabelText[i].plane))

\* C6 (label nudge direction), amended: as above, but if normal.x = 0 the
\* move is along +Y when normal.z < 0 and along -Y otherwise.
C6_NudgeDirection ==
    (op \in FaceLabelOps /\ arg.text_labels /\ GeometryFixed)
        => \A i \in 1..Len(LabelText) :
              NudgedAlong(LabelText[i], Subjects[1].center,
                          AmendedDirection(LabelText[i].plane))

C6_Witness ==
    /\ op \in FaceLabelOps
    /\ arg.text_labels
    /\ Len(LabelText) >= 1
    /\ LabelText[1].plane.n.v[1] = 0
    /\ LabelText[1].plane.n.v[3] > 0
    /\ LabelText[1].height.num > 0
    /\ Minus(LabelText[1].plane.o, Subjects[1].center)
          = Times(Neg(LabelText[1].plane.y), LabelText[1].height)
    /\ Minus(LabelText[1].plane.o, Subjects[1].center)
          # Times(LabelText[1].plane.y, LabelText[1].height)

\* The formatted values label placement runs on: all of them, except that the
\* base color_face_to_vis_set passes over 'N/A'.
Placed ==
    IF op = "color_face_to_vis_set" THEN SelectSeq(Props, LAMBDA prop : prop # NA)
    ELSE Props

ExplicitNonPositive ==
    /\ ~AutoHeight
    /\ ~Less(Frac(0, 1), arg.color_obj.legend_parameters.text_height)

\* C7 (explicit height validation), as claimed: a call that places a label
\* with an explicit text height <= 0 fails with InvalidConfiguration and
\* returns no label, for room and face labels alike.
C7_ExplicitHeightRejected ==
    (LabelsAsked /\ ExplicitNonPositive /\ Placed # <<>>)
        => (outcome = "InvalidConfiguration" /\ ret = None)

\* C8 (zero-extent geometry), as claimed: a call that places a label with
\* automatic height on a geometry whose extent is zero (x for a room, x and
\* y for a face) fails with InvalidGeometry and returns no label.
C8_ZeroExtentRejected ==
    (LabelsAsked /\ AutoHeight /\ Placed # <<>> /\ GeometryFixed
                 /\ ZeroExtent(Subjects[1]))
        => (outcome = "InvalidGeometry" /\ ret = None)

\* C9 (unrecognized color-by selector), as claimed: face_to_vis_set and
\* aperture_to_vis_set called with a color_by that, lower-cased, is neither
\* 'type' nor 'boundary_condition' fail with InvalidConfiguration and return
\* no VisualizationSet.
C9_UnknownColorByRejected ==
    (op \in {"face_to_vis_set", "aperture_to_vis_set"}
        /\ lower(arg.color_by) \notin {TypeText, BoundaryConditionText})
        => (outcome = "InvalidConfiguration" /\ ret = None)

\* The labels are those of the formatted values `props`, one each, in order.
LabelsOf(props) ==
    /\ Len(LabelText) = Len(props)
    /\ \A i \in 1..Len(props) : LabelText[i].text = props[i]

LegendOut == ret.geometry[1].data_sets[1].legend_parameters

AnalysisAsked ==
    op \in {"color_room_to_vis_set", "color_face_to_vis_set"} /\ ~arg.text_labels

\* C11 (no mutation of input): once a call has returned (the conversions and
\* the wireframe extraction), every domain object handed to it is as it was
\* when the call was made; in particular the legend parameters of the color
\* object keep their segment_count, ordinal_dictionary and title, the
\* analysis branch having written to a duplicate only.
C11_NoInputMutation ==
    op # "none"
        => /\ \A f \in DOMAIN inputs : inputs[f] = arg[f]
           /\ AnalysisAsked
                 => LET before == arg.color_obj.legend_parameters
                        after == inputs.color_obj.legend_parameters
                    IN  /\ after.segment_count = before.segment_count
                        /\ after.ordinal_dictionary = before.ordinal_dictionary
                        /\ after.title = before.title

C11_Witness ==
    /\ AnalysisAsked
    /\ arg.color_obj.attributes # <<>>
    /\ arg.color_obj.legend_parameters.title = None
    /\ LegendOut.title # None
    /\ LegendOut.segment_count # arg.color_obj.legend_parameters.segment_count
    /\ 0 \in DOMAIN LegendOut.ordinal_dictionary
    /\ inputs.color_obj.legend_parameters = arg.color_obj.legend_parameters

ConversionOps == FaceLabelOps \cup RoomLabelOps

IsTextLabel(geo) == "text" \in DOMAIN geo /\ "plane" \in DOMAIN geo
IsLineSegment(geo) == "line_width" \in DOMAIN geo

\* C12 (composition of the returned set): for every text_labels and
\* include_wireframe, the room and face conversions return a set whose
\* geometry list is one attribute layer (a ContextGeometry of text labels
\* when text_labels, an AnalysisGeometry with one data set otherwise),
\* followed by one ContextGeometry 'Wireframe' of line segments if and only
\* if include_wireframe.
C12_SetComposition ==
    op \in ConversionOps
        => /\ Len(ret.geometry) = (IF arg.include_wireframe THEN 2 ELSE 1)
           /\ arg.text_labels
                 => /\ ret.geometry[1].type = "ContextGeometry"
                    /\ \A i \in 1..Len(ret.geometry[1].geometry) :
                          IsTextLabel(ret.geometry[1].geometry[i])
           /\ ~arg.text_labels
                 => /\ ret.geometry[1].type = "AnalysisGeometry"
                    /\ Len(ret.geometry[1].data_sets) = 1
           /\ ret.geometry[1].identifier # Wireframe
           /\ arg.include_wireframe
                 => /\ ret.geometry[2].type = "ContextGeometry"
                    /\ ret.geometry[2].identifier = Wireframe
                    /\ \A i \in 1..Len(ret.geometry[2].geometry) :
                          IsLineSegment(ret.geometry[2].geometry[i])

C12_Witness ==
    /\ op = "color_face_to_vis_set"
    /\ arg.text_labels
    /\ arg.include_wireframe
    /\ Len(ret.geometry) = 2
    /\ ret.geometry[1].geometry # <<>>
    /\ ret.geometry[2].identifier = Wireframe
    /\ ret.geometry[2].geometry # <<>>

\* q = extent / max(len(text), 10), in lowest terms.
IsAutoHeight(q, extent, text) ==
    LET longest == IF Len(text) > 10 THEN Len(text) ELSE 10
    IN  /\ q.num * extent.den * longest = extent.num * q.den
        /\ q.den > 0
        /\ GCD(Abs(q.num), q.den) = 1

\* C13 (room label placement): every room of the input gets a label whose
\* plane has the centre of the room's geometry as origin and (0,0,1) as
\* normal; with no explicit height its height is (max.x - min.x) /
\* max(len(value), 10), so centre (5,5,3), 'Office' and x extent 10 give
\* height 1 at (5,5,3); an explicit height is used unchanged.
C13_RoomLabelPlacement ==
    (op \in RoomLabelOps /\ arg.text_labels)
        => /\ Len(LabelText) = Len(Subjects)
           /\ \A i \in 1..Len(LabelText) :
                 /\ LabelText[i].plane.o = Subjects[i].center
                 /\ LabelText[i].plane.n = Vector3D(0, 0, 1)
                 /\ AutoHeight
                       => IsAutoHeight(LabelText[i].height, XExtent(Subjects[i]),
                                       LabelText[i].text)
                 /\ ~AutoHeight
                       => LabelText[i].height
                             = arg.color_obj.legend_parameters.text_height
                 /\ (AutoHeight /\ LabelText[i].text = Office
                        /\ XExtent(Subjects[i]) = Frac(10, 1))
                       => LabelText[i].height = Frac(1, 1)

C13_Witness ==
    /\ op = "color_room_to_vis_set"
    /\ arg.text_labels
    /\ AutoHeight
    /\ Len(LabelText) >= 1
    /\ LabelText[1].text = Office
    /\ arg.color_obj.rooms[1].geometry.center = Vector3D(5, 5, 3)
    /\ XExtent(arg.color_obj.rooms[1].geometry) = Frac(10, 1)
    /\ LabelText[1].height = Frac(1, 1)
    /\ LabelText[1].plane.o = Vector3D(5, 5, 3)

\* C14 (face auto-height): with no explicit height, the height of a face
\* label is max(max.x - min.x, max.y - min.y) / (2 * max(len(value), 10));
\* the z extent does not enter, so a vertical face lying along z and one
\* horizontal axis gets its height from the horizontal extent alone.
C14_FaceAutoHeight ==
    (op \in FaceLabelOps /\ arg.text_labels /\ AutoHeight /\ GeometryFixed)
        => \A i \in 1..Len(LabelText) :
              \E ext \in {XExtent(Subjects[1]), YExtent(Subjects[1])} :
                  /\ ~Less(ext, XExtent(Subjects[1]))
                  /\ ~Less(ext, YExtent(Subjects[1]))
                  /\ IsAutoHeight(LabelText[i].height,
                                  Frac(ext.num, 2 * ext.den), LabelText[i].text)

C14_Witness ==
    /\ op \in FaceLabelOps
    /\ arg.text_labels
    /\ AutoHeight
    /\ Len(LabelText) >= 1
    /\ Subjects[1].normal.v[3] = 0
    /\ XExtent(Subjects[1]) = Frac(0, 1)
    /\ YExtent(Subjects[1]) = Frac(MaxExt, 1)
    /\ Subjects[1].max.v[3] - Subjects[1].min.v[3] > MaxExt
    /\ Len(LabelText[1].text) > 10
    /\ LabelText[1].height = Frac(MaxExt, 2 * Len(LabelText[1].text))

IsSubShadeId(id) == id[6] # 0

\* The segments a wireframe extraction has produced.
Extracted ==
    CASE op = "_process_wireframe" -> Appended
      [] op \in {"_room_wireframe", "_face_wireframe"} -> ret.geometry
      [] op \in ConversionOps /\ arg.include_wireframe -> ret.geometry[2].geometry
      [] OTHER -> <<>>

\* C15 (shade depth limit): wireframe extraction goes one level into shades:
\* for an object whose shades own sub-shades, the output holds the segments
\* of the object and of each of its direct shades and no segment of a
\* sub-shade, and the extraction returns whatever the nesting.
C15_ShadeDepthLimit ==
    /\ \A i \in 1..Len(Extracted) : ~IsSubShadeId(Owner(Extracted[i]))
    /\ op = "_process_wireframe"
          => /\ outcome = "returned"
             /\ { Owner(Appended[i]) : i \in 1..Len(Appended) }
                   = {arg.geo_obj.identifier}
                     \cup { arg.geo_obj.shades[s].identifier :
                              s \in 1..Len(arg.geo_obj.shades) }

C15_Witness ==
    /\ op = "_process_wireframe"
    /\ \E s \in 1..Len(arg.geo_obj.shades) :
          /\ arg.geo_obj.shades[s].shades # <<>>
          /\ arg.geo_obj.shades[s].shades[1].geometry.boundary # <<>>
          /\ \E i \in 1..Len(Appended) :
                Owner(Appended[i]) = arg.geo_obj.shades[s].identifier
    /\ \A i \in 1..Len(Appended) : ~IsSubShadeId(Owner(Appended[i]))

\* The numeric values the analysis branch hands to VisualizationData.
ValuesOut == ret.geometry[1].data_sets[1].values

\* C16 (ordinal mapping round trip): in the analysis branch of
\* color_room_to_vis_set and color_face_to_vis_set, when attributes_unique
\* lists each distinct attribute once (U of them), values has the length and
\* order of attributes, every values[i] is in 0..U-1,
\* ordinal_dictionary[values[i]] is attributes[i], and the legend's
\* segment_count is U.
C16_OrdinalRoundTrip ==
    LET attributes == arg.color_obj.attributes
        unique == arg.color_obj.attributes_unique
        U == Cardinality(Range(attributes))
    IN  (AnalysisAsked /\ Len(unique) = U /\ Range(unique) = Range(attributes))
            => /\ Len(ValuesOut) = Len(attributes)
               /\ DOMAIN LegendOut.ordinal_dictionary = 0..(U - 1)
               /\ \A i \in 1..Len(attributes) :
                     /\ ValuesOut[i] \in 0..(U - 1)
                     /\ LegendOut.ordinal_dictionary[ValuesOut[i]] = attributes[i]
               /\ LegendOut.segment_count = U

C16_Witness ==
    /\ AnalysisAsked
    /\ Len(arg.color_obj.attributes) = 3
    /\ arg.color_obj.attributes[1] = arg.color_obj.attributes[3]
    /\ arg.color_obj.attributes[1] # arg.color_obj.attributes[2]
    /\ Len(arg.color_obj.attributes_unique) = 2
    /\ ValuesOut = <<0, 1, 0>>
    /\ LegendOut.segment_count = 2

====
